---- MODULE Spec2Model ----
(***************************************************************************)
(* Model of Text_to_video.py: the slide form, create_voiceover,            *)
(* create_slide_image, animate_clip, create_video_from_slides and the      *)
(* "Generate Video" button handler.                                        *)
(*                                                                         *)
(* Strings are sequences of one-character strings, Python dict entries an  *)
(* option (<<>> = key absent / None, <<v>> = key present with value v),    *)
(* durations whole seconds.  The external libraries (gTTS, Pillow,         *)
(* moviepy, the file system) are modelled by their effect on the state     *)
(* the program can observe; where they may raise, the outcome is a         *)
(* nondeterministic choice.                                                *)
(***************************************************************************)
EXTENDS Integers, Sequences, FiniteSets, TLC

VARIABLES
    widgets,          \* form values per slide (lines 122-141); <<>> when the caller passes dicts
    slides,           \* slides_data / the `slides` argument
    font_ok,          \* environment: DejaVuSans-Bold.ttf can be loaded
    pc,               \* control position of the script
    i,                \* index of the slide the loop of line 76 is at (1-based)
    voice_text,       \* line 78, option
    voiceover,        \* line 80, option of [path, duration]
    duration,         \* line 85
    img_array,        \* line 88, option of a frame
    clips,            \* line 73
    audio_temp_files, \* line 74
    files,            \* file system: the temp audio files that exist
    final_clip,       \* line 96, option
    output,           \* file system: the file at output_file
    k,                \* index of the cleanup loop of line 100
    video_path,       \* line 161, option
    shown,            \* lines 162-166: st.video and st.download_button were reached
    error,            \* option: the exception that left the handler
    trace             \* history: the steps started, in order

vars == <<widgets, slides, font_ok, pc, i, voice_text, voiceover, duration,
          img_array, clips, audio_temp_files, files, final_clip, output, k,
          video_path, shown, error, trace>>

----------------------------------------------------------------------------
\* Bounds of the model.

MaxSlides == 2
MaxAudio == 3
MaxTextLen == 2

\* Program constants.

ResolutionW == 1920
ResolutionH == 1080
DefaultDuration == 4
DefaultFade == 1
DefaultTextSize == 48

----------------------------------------------------------------------------
\* Python values.

Missing == <<>>
Some(x) == <<x>>

\* dict.get(key, default)
Get(opt, default) == IF opt = Missing THEN default ELSE opt[1]

Max(a, b) == IF a >= b THEN a ELSE b

IsSpace(c) == c \in {" ", "\t", "\n"}

RECURSIVE lstrip(_)
lstrip(s) == IF s # <<>> /\ IsSpace(Head(s)) THEN lstrip(Tail(s)) ELSE s

RECURSIVE rstrip(_)
rstrip(s) == IF s # <<>> /\ IsSpace(s[Len(s)]) THEN rstrip(SubSeq(s, 1, Len(s) - 1)) ELSE s

\* str.strip()
strip(s) == rstrip(lstrip(s))

RECURSIVE SumSeq(_)
SumSeq(s) == IF s = <<>> THEN 0 ELSE Head(s) + SumSeq(Tail(s))

----------------------------------------------------------------------------
\* The slide form (lines 122-156).

\* slide_data of line 143: the dict built from one slide's widgets.
slide_data(w) ==
    [ text          |-> Some(w.slide_text),
      voiceover     |-> Some(IF strip(w.voiceover_text) # <<>> THEN w.voiceover_text
                             ELSE w.slide_text),
      text_size     |-> Some(w.text_size),
      text_position |-> Some(<<w.text_x, w.text_y>>),
      bg_color      |-> Some(w.bg_color),
      text_color    |-> Some(w.text_color),
      duration      |-> Some(w.slide_duration),
      fade_duration |-> Some(w.fade_duration),
      voice_lang    |-> Some(w.voice_lang),
      uploaded_file |-> IF w.slide_type = "image" THEN w.uploaded_file ELSE Missing ]

----------------------------------------------------------------------------
\* create_slide_image (lines 19-56).

\* ImageFont.truetype(...) with the fallback of lines 40-44.
LoadFont(size) == IF font_ok THEN [kind |-> "truetype", size |-> size]
                  ELSE [kind |-> "default", size |-> 10]

\* draw.textbbox((0, 0), text, font=font): a box that grows with the text and the font.
textbbox(text, font) ==
    IF font.kind = "truetype" THEN <<0, 0, Len(text) * (font.size \div 2), font.size>>
    ELSE <<0, 0, Len(text) * 6, 11>>

\* Lines 28-34: the background the text is drawn on.
Background(slide) ==
    IF slide.uploaded_file # Missing
    THEN <<"image", slide.uploaded_file[1]>>
    ELSE <<"fill", Get(slide.bg_color, "#000000")>>

\* Image.open(...) of line 30 raises on a file it cannot decode.
DecodeFails(slide) ==
    slide.uploaded_file # Missing /\ slide.uploaded_file[1] = "corrupt"

\* Line 38 without the strip(): any non-empty text counts as text to draw.
HasText_NoStrip(text) == text # <<>>

\* Line 38: whether there is text to overlay.
HasText(text) == strip(text) # <<>>

\* Lines 50-54: where the text is drawn.
TextOrigin(pos, text_width, text_height) ==
    IF pos[1] = -1 \/ pos[2] = -1
    THEN <<(ResolutionW - text_width) \div 2, (ResolutionH - text_height) \div 2>>
    ELSE pos

create_slide_image(slide) ==
    LET text == Get(slide.text, <<>>)
        font == LoadFont(Get(slide.text_size, DefaultTextSize))
        bbox == textbbox(text, font)
        text_width == bbox[3] - bbox[1]
        text_height == bbox[4] - bbox[2]
        pos == Get(slide.text_position, <<ResolutionW \div 2, ResolutionH \div 2>>)
    IN  [ size    |-> <<ResolutionW, ResolutionH>>,
          base    |-> Background(slide),
          overlay |-> IF HasText(text)
                      THEN Some([ text |-> text,
                                  xy   |-> TextOrigin(pos, text_width, text_height),
                                  font |-> font,
                                  fill |-> Get(slide.text_color, "#FFFFFF") ])
                      ELSE Missing ]

----------------------------------------------------------------------------
\* Clips (moviepy), as far as the program reads and sets them.

ImageClip(img) == [img |-> img, duration |-> 0, fadein |-> 0, fadeout |-> 0, audio |-> Missing]

set_duration(clip, d) == [clip EXCEPT !.duration = d]

set_audio(clip, a) == [clip EXCEPT !.audio = Some(a)]

\* animate_clip cutting the fades out of the clip instead of laying them over it.
animate_clip_Trimmed(clip, fade_duration) ==
    [clip EXCEPT !.duration = @ - fade_duration,
                 !.fadein = fade_duration, !.fadeout = fade_duration]

\* animate_clip (lines 58-60).
animate_clip(clip, fade_duration) ==
    [clip EXCEPT !.fadein = fade_duration, !.fadeout = fade_duration]

\* Line 78: the text handed to create_voiceover.
VoiceText(slide) == Get(slide.voiceover, Get(slide.text, <<>>))

\* Lines 84-85 without the max: the declared duration alone.
EffectiveDuration_DeclaredOnly(slide, audio) == Get(slide.duration, DefaultDuration)

\* Lines 84-85.
EffectiveDuration(slide, audio) == Max(Get(slide.duration, DefaultDuration), audio.duration)

\* Lines 89-92: the clip of one slide.
BuildClip(slide, img, d, audio) ==
    set_audio(animate_clip(set_duration(ImageClip(img), d),
                           Get(slide.fade_duration, DefaultFade)),
              audio)

\* Line 93 inserting at the front of the list.
AppendClip_Front(cs, clip) == <<clip>> \o cs

\* Line 93.
AppendClip(cs, clip) == Append(cs, clip)

\* concatenate_videoclips(clips, method="compose") of line 96: the clips in the
\* order given, each starting where the one before it ends.
concatenate_videoclips(cs) ==
    [ duration |-> SumSeq([n \in 1..Len(cs) |-> cs[n].duration]),
      parts    |-> cs ]

----------------------------------------------------------------------------
\* Inputs.

Chars == {" ", "a"}

\* The strings of at most n characters.
Texts(n) == UNION {[1..m -> Chars] : m \in 0..n}

\* The non-empty lists of at most MaxSlides elements of S.
Lists(S) == UNION {[1..n -> S] : n \in 1..MaxSlides}

Coordinates == {-1, 0, 100}

Narration == {<<>>, <<" ">>, <<"b">>}

\* Slide dicts of callers that pass them to create_video_from_slides themselves:
\* any key may be absent.
RenderSlides ==
    [ text          : {Missing} \cup {Some(t) : t \in Texts(MaxTextLen)},
      voiceover     : {Missing} \cup {Some(t) : t \in Narration},
      text_size     : {Missing},
      text_position : {Missing} \cup {Some(<<x, y>>) : x, y \in Coordinates},
      bg_color      : {Missing, Some("#336699")},
      text_color    : {Missing},
      duration      : {Some(2)},
      fade_duration : {Some(1)},
      voice_lang    : {Missing},
      uploaded_file : {Missing, Some("png"), Some("corrupt")} ]

TimingSlides ==
    [ text          : {Some(<<"a">>)},
      voiceover     : {Missing, Some(<<"b">>)},
      text_size     : {Missing},
      text_position : {Missing},
      bg_color      : {Missing},
      text_color    : {Missing},
      duration      : {Missing, Some(2)},
      fade_duration : {Some(0), Some(1)},
      voice_lang    : {Some("en")},
      uploaded_file : {Missing, Some("corrupt")} ]

\* Widget values the form of lines 126-141 can hold.
RenderWidgets ==
    [ slide_type     : {"title", "image"},
      slide_text     : Texts(MaxTextLen),
      voiceover_text : Narration,
      slide_duration : {2},
      fade_duration  : {1},
      voice_lang     : {"en"},
      text_size      : {48},
      text_x         : Coordinates,
      text_y         : Coordinates,
      bg_color       : {"#000000"},
      text_color     : {"#FFFFFF"},
      uploaded_file  : {Missing, Some("png"), Some("corrupt")} ]

TimingWidgets ==
    [ slide_type     : {"image"},
      slide_text     : {<<"a">>},
      voiceover_text : {<<>>, <<"b">>},
      slide_duration : {2, 4},
      fade_duration  : {0, 1},
      voice_lang     : {"en"},
      text_size      : {48},
      text_x         : {-1},
      text_y         : {-1},
      bg_color       : {"#000000"},
      text_color     : {"#FFFFFF"},
      uploaded_file  : {Missing, Some("corrupt")} ]

\* The state when the script has drawn the form and nothing was generated yet.
Fresh ==
    /\ i = 0
    /\ voice_text = Missing
    /\ voiceover = Missing
    /\ duration = 0
    /\ img_array = Missing
    /\ clips = <<>>
    /\ audio_temp_files = <<>>
    /\ files = {}
    /\ final_clip = Missing
    /\ output = "absent"
    /\ k = 0
    /\ video_path = Missing
    /\ shown = FALSE
    /\ error = Missing
    /\ trace = <<>>

\* Runs over several slides: timing, order, failures, cleanup.
Init ==
    /\ Fresh
    /\ font_ok = TRUE
    /\ \/ /\ widgets \in Lists(TimingWidgets)
          /\ slides = <<>>
          /\ pc = "form"
       \/ /\ widgets = <<>>
          /\ slides \in Lists(TimingSlides)
          /\ pc = "ready"

\* Runs over one slide: every text, position and background.
InitSlide ==
    /\ Fresh
    /\ font_ok \in BOOLEAN
    /\ \/ /\ widgets \in {<<w>> : w \in RenderWidgets}
          /\ slides = <<>>
          /\ pc = "form"
       \/ /\ widgets = <<>>
          /\ slides \in {<<s>> : s \in RenderSlides}
          /\ pc = "ready"

----------------------------------------------------------------------------
\* Steps.

env == <<widgets, slides, font_ok>>

Log(step, n, ok) == trace' = Append(trace, [step |-> step, slide |-> n, ok |-> ok])

\* A loop body that catches a slide's exception and goes on to the next slide.
Abort_SkipSlide(kind) ==
    IF kind \in {"synth", "render", "assemble"}
    THEN /\ IF i < Len(slides)
            THEN i' = i + 1 /\ pc' = "synth"
            ELSE i' = i /\ pc' = "concat"
         /\ UNCHANGED <<error, k, clips, final_clip, video_path, shown>>
    ELSE /\ pc' = "failed"
         /\ error' = Some(kind)
         /\ UNCHANGED <<i, k, clips, final_clip, video_path, shown>>

\* An exception raised inside create_video_from_slides: nothing catches it there or
\* in the button handler (lines 158-161), so the script run ends with the error shown.
Abort(kind) ==
    /\ pc' = "failed"
    /\ error' = Some(kind)
    /\ UNCHANGED <<i, k, clips, final_clip, video_path, shown>>

\* Lines 122-156: the script builds slides_data from the widgets.
FormBuild ==
    /\ pc = "form"
    /\ slides' = [n \in 1..Len(widgets) |-> slide_data(widgets[n])]
    /\ pc' = "ready"
    /\ UNCHANGED <<widgets, font_ok, i, voice_text, voiceover, duration, img_array, clips,
                   audio_temp_files, files, final_clip, output, k, video_path, shown,
                   error, trace>>

\* Lines 158-161 and 73-76: the button is pressed, the run starts at the first slide.
Generate ==
    /\ pc = "ready"
    /\ clips' = <<>>
    /\ audio_temp_files' = <<>>
    /\ i' = 1
    /\ pc' = "synth"
    /\ UNCHANGED <<env, voice_text, voiceover, duration, img_array, files, final_clip,
                   output, k, video_path, shown, error, trace>>

\* tempfile.mkstemp of line 13: a new file under a name no file has.
mkstemp == Cardinality(files) + 1

\* Lines 78-81 with create_voiceover (lines 10-17).
Synthesize ==
    /\ pc = "synth"
    /\ voice_text' = Some(VoiceText(slides[i]))
    /\ UNCHANGED <<env, duration, img_array, output>>
    /\ \/ \* gTTS(...) of line 12 raises: no file was made
          /\ Log("synth", i, FALSE)
          /\ Abort("synth")
          /\ UNCHANGED <<voiceover, audio_temp_files, files>>
       \/ \* tts.save or AudioFileClip (lines 15-16) raises: the file of line 13 exists
          \* and its path never reached audio_temp_files
          /\ Log("synth", i, FALSE)
          /\ files' = files \cup {mkstemp}
          /\ Abort("synth")
          /\ UNCHANGED <<voiceover, audio_temp_files>>
       \/ \E v \in 1..MaxAudio :
          /\ Log("synth", i, TRUE)
          /\ files' = files \cup {mkstemp}
          /\ voiceover' = Some([path |-> mkstemp, duration |-> v])
          /\ audio_temp_files' = Append(audio_temp_files, mkstemp)
          /\ pc' = "render"
          /\ UNCHANGED <<i, k, clips, final_clip, video_path, shown, error>>

\* Lines 84-88: the duration, then create_slide_image.
Render ==
    /\ pc = "render"
    /\ duration' = EffectiveDuration(slides[i], voiceover[1])
    /\ UNCHANGED <<env, voice_text, voiceover, audio_temp_files, files, output>>
    /\ \/ /\ DecodeFails(slides[i])
          /\ Log("render", i, FALSE)
          /\ Abort("render")
          /\ UNCHANGED img_array
       \/ /\ ~DecodeFails(slides[i])
          /\ Log("render", i, TRUE)
          /\ img_array' = Some(create_slide_image(slides[i]))
          /\ pc' = "assemble"
          /\ UNCHANGED <<i, k, clips, final_clip, video_path, shown, error>>

\* Lines 89-93, and the loop of line 76 moving on.
Assemble ==
    /\ pc = "assemble"
    /\ UNCHANGED <<env, voice_text, voiceover, duration, img_array, audio_temp_files,
                   files, output>>
    /\ \/ /\ Log("assemble", i, FALSE)
          /\ Abort("assemble")
       \/ /\ Log("assemble", i, TRUE)
          /\ clips' = AppendClip(clips, BuildClip(slides[i], img_array[1], duration, voiceover[1]))
          /\ IF i < Len(slides)
             THEN i' = i + 1 /\ pc' = "synth"
             ELSE i' = i /\ pc' = "concat"
          /\ UNCHANGED <<k, final_clip, video_path, shown, error>>

\* Line 96.
Concatenate ==
    /\ pc = "concat"
    /\ Log("concat", 0, TRUE)
    /\ final_clip' = Some(concatenate_videoclips(clips))
    /\ pc' = "write"
    /\ UNCHANGED <<env, i, voice_text, voiceover, duration, img_array, clips,
                   audio_temp_files, files, output, k, video_path, shown, error>>

\* Line 97: write_videofile encodes into output_file itself.
WriteVideo ==
    /\ pc = "write"
    /\ UNCHANGED <<env, voice_text, voiceover, duration, img_array, audio_temp_files, files>>
    /\ \/ /\ Log("write", 0, TRUE)
          /\ output' = "complete"
          /\ k' = 1
          /\ pc' = "cleanup"
          /\ UNCHANGED <<i, clips, final_clip, video_path, shown, error>>
       \/ \* the encoder fails before or after it has begun to write the file
          /\ Log("write", 0, FALSE)
          /\ output' \in {"absent", "partial"}
          /\ Abort("write")

\* Lines 100-101: one os.remove.
RemoveTemp ==
    /\ pc = "cleanup"
    /\ k <= Len(audio_temp_files)
    /\ UNCHANGED <<env, voice_text, voiceover, duration, img_array, audio_temp_files, output>>
    /\ \/ /\ Log("remove", k, TRUE)
          /\ files' = files \ {audio_temp_files[k]}
          /\ k' = k + 1
          /\ UNCHANGED <<pc, i, clips, final_clip, video_path, shown, error>>
       \/ \* os.remove raises (the file is still open, or already gone)
          /\ Log("remove", k, FALSE)
          /\ Abort("remove")
          /\ UNCHANGED files

\* Lines 102 and 161-166: the path is returned, the video shown and offered.
ShowVideo ==
    /\ pc = "cleanup"
    /\ k > Len(audio_temp_files)
    /\ video_path' = Some("output_file")
    /\ shown' = TRUE
    /\ pc' = "shown"
    /\ UNCHANGED <<env, i, voice_text, voiceover, duration, img_array, clips,
                   audio_temp_files, files, final_clip, output, k, error, trace>>

Next ==
    \/ FormBuild
    \/ Generate
    \/ Synthesize
    \/ Render
    \/ Assemble
    \/ Concatenate
    \/ WriteVideo
    \/ RemoveTemp
    \/ ShowVideo

Spec == Init /\ [][Next]_vars

SpecSlide == InitSlide /\ [][Next]_vars

----------------------------------------------------------------------------
\* Properties.

N == Len(slides)

Ended == pc \in {"failed", "shown"}

SlideSteps == <<"synth", "render", "assemble">>

IsBlank(text) == \A n \in 1..Len(text) : text[n] \in {" ", "\t", "\n"}

Declared(n) == Get(slides[n].duration, DefaultDuration)

Measured(n) == clips[n].audio[1].duration

\* C1: when a run has ended, with the video encoded, with a failed slide step or
\* with a failed video write, every transient audio file made during the run has
\* been deleted.
C1_TempFilesDeletedWhenRunEnds == Ended => files = {}

\* C2: the clip built for a slide with declared duration d and measured voiceover
\* duration v lasts exactly max(d, v): it is d or v, and shorter than neither.
C2_ClipLastsMaxOfDeclaredAndVoiceover ==
    \A n \in 1..Len(clips) :
        /\ clips[n].duration \in {Declared(n), Measured(n)}
        /\ clips[n].duration >= Declared(n)
        /\ clips[n].duration >= Measured(n)

\* C2 witness: a clip was built whose voiceover is longer than the declared
\* duration, and one whose voiceover is shorter.
C2_Witness ==
    /\ Len(clips) = 2
    /\ Measured(1) > Declared(1)
    /\ Measured(2) < Declared(2)

\* C3: once synthesis, render or assembly has failed for a slide, that failed step
\* is the last step of the run: no later slide is processed, no step is retried,
\* concatenation and encoding never start, and the handler has ended in failure
\* with no video shown and no path to download.
C3_SlideFailureAbortsRun ==
    \A n \in 1..Len(trace) :
        (trace[n].step \in {"synth", "render", "assemble"} /\ ~trace[n].ok) =>
            /\ n = Len(trace)
            /\ pc = "failed"
            /\ i = trace[n].slide
            /\ Len(clips) = i - 1
            /\ \A m \in 1..Len(trace) :
                  /\ trace[m].step \notin {"concat", "write", "remove"}
                  /\ m < n => <<trace[m].step, trace[m].slide>> # <<trace[n].step, trace[n].slide>>
            /\ final_clip = Missing
            /\ output = "absent"
            /\ video_path = Missing
            /\ ~shown

\* C3 witness: the second slide's render failed after the first slide was assembled.
C3_Witness ==
    /\ pc = "failed"
    /\ error = Some("render")
    /\ i = 2
    /\ Len(clips) = 1

\* C4: the file at the output path is never a partially written one (a failed
\* write leaves no output), and a returned path names a completely written file.
C4_NoPartialOutput ==
    /\ output # "partial"
    /\ video_path # Missing => output = "complete"

\* C5: after the video was encoded, a failing deletion of a temp file is not
\* escalated: the run still ends with the output path returned, every tracked
\* file's deletion having been attempted.
C5_DeletionIsBestEffort ==
    (Ended /\ output = "complete") =>
        /\ pc = "shown"
        /\ video_path # Missing
        /\ k > Len(audio_temp_files)

\* C6: for non-blank text, a position of (-1, -1) draws the text at
\* ((W - textWidth) / 2, (H - textHeight) / 2) and every other given position
\* (x, y), also one with a single -1, draws it at exactly (x, y).
C6_TextDrawnAtGivenPosition ==
    (pc = "assemble" /\ slides[i].text_position # Missing /\ img_array[1].overlay # Missing) =>
        LET drawn == img_array[1].overlay[1]
            box == textbbox(drawn.text, drawn.font)
            pos == slides[i].text_position[1]
        IN  IF pos = <<-1, -1>>
            THEN drawn.xy = <<(ResolutionW - (box[3] - box[1])) \div 2,
                              (ResolutionH - (box[4] - box[2])) \div 2>>
            ELSE drawn.xy = pos

\* C7: the text sent to the synthesizer for a slide is its voiceover text when
\* that is non-blank, and its display text when the voiceover text is blank or
\* absent, for slides built by the form and for slides passed in directly.
C7_BlankVoiceoverFallsBackToText ==
    (pc \in {"render", "assemble"}) =>
        LET vo == IF widgets # <<>> THEN Some(widgets[i].voiceover_text)
                  ELSE slides[i].voiceover
            text == IF widgets # <<>> THEN widgets[i].slide_text
                    ELSE Get(slides[i].text, <<>>)
        IN  voice_text = Some(IF vo # Missing /\ ~IsBlank(vo[1]) THEN vo[1] ELSE text)

\* C8: the video handed to the encoder lasts the sum of the effective durations
\* max(d, v) of its slides' clips, whatever their fades.
C8_TotalDurationIsSumOfClips ==
    final_clip # Missing =>
        final_clip[1].duration =
            SumSeq([n \in 1..N |-> IF Declared(n) >= Measured(n) THEN Declared(n)
                                   ELSE Measured(n)])

\* C8 witness: two clips of different durations, with fades, were concatenated.
C8_Witness ==
    /\ final_clip # Missing
    /\ Len(clips) = 2
    /\ clips[1].duration # clips[2].duration
    /\ clips[1].fadein > 0
    /\ clips[2].fadeout > 0

\* C9: for a slide whose text is empty or only whitespace the frame is the
\* background alone (the uploaded image resized, else the fill with the background
\* color, black by default), whatever the text position.
C9_BlankTextDrawsNothing ==
    (pc = "assemble" /\ IsBlank(Get(slides[i].text, <<>>))) =>
        img_array[1] =
            [ size    |-> <<ResolutionW, ResolutionH>>,
              base    |-> IF slides[i].uploaded_file # Missing
                          THEN <<"image", slides[i].uploaded_file[1]>>
                          ELSE <<"fill", IF slides[i].bg_color # Missing
                                         THEN slides[i].bg_color[1] ELSE "#000000">>,
              overlay |-> Missing ]

\* C9 witness: a slide whose text is two spaces, with an explicit position, was rendered.
C9_Witness ==
    /\ pc = "assemble"
    /\ slides[i].text = Some(<<" ", " ">>)
    /\ slides[i].text_position = Some(<<0, 100>>)
    /\ img_array # Missing

\* C10: the steps run one at a time, slide by slide in list order, each slide's in
\* the order synthesize, render, assemble and each only after the step before it
\* succeeded; concatenation starts after the N-th assembly, on exactly N clips,
\* the n-th built from the n-th slide.
C10_SlidesInOrderThenConcatenate ==
    /\ \A n \in 1..Len(trace) :
          /\ n <= 3 * N => /\ trace[n].step = SlideSteps[((n - 1) % 3) + 1]
                           /\ trace[n].slide = ((n - 1) \div 3) + 1
          /\ n = 3 * N + 1 => trace[n].step = "concat"
          /\ n > 1 => trace[n - 1].ok
    /\ final_clip # Missing =>
          /\ Len(final_clip[1].parts) = N
          /\ \A n \in 1..N :
                LET part == final_clip[1].parts[n]
                IN  /\ part.img = create_slide_image(slides[n])
                    /\ part.audio[1].path = audio_temp_files[n]
                    /\ part.fadein = Get(slides[n].fade_duration, DefaultFade)

\* C10 witness: a run over two slides reached the concatenation.
C10_Witness ==
    /\ final_clip # Missing
    /\ N = 2
    /\ Len(trace) >= 7

====
